---- MODULE Spec2Model ----
(***************************************************************************)
(* Model of fix_glass.py: the script reads one file into `code`, threads   *)
(* it through a chain of `code = code.replace(search, replacement)`        *)
(* statements and writes `code` back to the same path.                     *)
(*                                                                         *)
(* Texts are sequences of one-character strings.  The chain of replace     *)
(* statements is modelled over a rule list `rules` (one record per         *)
(* statement, in statement order); the script's 13 literal pairs are one   *)
(* such list.  The file content is the program's input.                    *)
(***************************************************************************)
EXTENDS Integers, Sequences, FiniteSets, TLC

VARIABLES disk, code, rules, pc, idx, inputs, run, report

vars == <<disk, code, rules, pc, idx, inputs, run, report>>

(***************************************************************************)
(* Bounds of the model.                                                    *)
(***************************************************************************)
MaxLen == 3
MaxRules == 2
MaxRuns == 2
MaxBuf == 16

(***************************************************************************)
(* Texts.                                                                  *)
(***************************************************************************)
Alphabet == {"A", "X", "Y"}

TextsOfLen(n) == [1..n -> Alphabet]

BoundedTexts == UNION {TextsOfLen(n) : n \in 0..MaxLen}

\* The buffers of the specification's scenarios, character by character.
BufAXB == <<"A", ".", " ", "X", ".", " ", "B", ".">>
BufAXXB == <<"A", ".", " ", "X", ".", " ", "X", ".", " ", "B", ".">>
BufAB == <<"A", ".", " ", "B", ".">>

Inputs == BoundedTexts \cup {BufAXB, BufAXXB, BufAB}

(***************************************************************************)
(* Rules: the (search, replacement) argument pairs of the replace chain.   *)
(***************************************************************************)
Rule(s, r) == [search |-> s, replacement |-> r]

RuleXY == Rule(<<"X">>, <<"Y">>)
RuleYZ == Rule(<<"Y">>, <<"Z">>)
RuleXXX == Rule(<<"X">>, <<"X", "X">>)
RuleXXY == Rule(<<"X", "X">>, <<"Y">>)
RuleAXDel == Rule(<<"A", "X">>, <<>>)
RuleEmptyY == Rule(<<>>, <<"Y">>)

RulePool == {RuleXY, RuleYZ, RuleXXX, RuleXXY, RuleAXDel, RuleEmptyY}

RuleSets == UNION {[1..n -> RulePool] : n \in 1..MaxRules}

(***************************************************************************)
(* str.replace(old, new) as the interpreter computes it.                   *)
(***************************************************************************)
RECURSIVE Interleave(_, _)
\* old = "": new is inserted before every character and after the last.
Interleave(s, new) ==
    IF s = <<>> THEN new
    ELSE new \o <<Head(s)>> \o Interleave(Tail(s), new)

RECURSIVE ReplaceOverlapping(_, _, _)
\* Faulty variant: after a match the scan resumes one character later.
ReplaceOverlapping(s, old, new) ==
    IF old = <<>> THEN Interleave(s, new)
    ELSE IF Len(s) < Len(old) THEN s
    ELSE IF SubSeq(s, 1, Len(old)) = old
         THEN new \o ReplaceOverlapping(Tail(s), old, new)
         ELSE <<Head(s)>> \o ReplaceOverlapping(Tail(s), old, new)

RECURSIVE ReplaceFirstOnly(_, _, _)
\* Faulty variant: only the leftmost occurrence is substituted (count = 1).
ReplaceFirstOnly(s, old, new) ==
    IF old = <<>> THEN new \o s
    ELSE IF Len(s) < Len(old) THEN s
    ELSE IF SubSeq(s, 1, Len(old)) = old
         THEN new \o SubSeq(s, Len(old) + 1, Len(s))
         ELSE <<Head(s)>> \o ReplaceFirstOnly(Tail(s), old, new)

RECURSIVE ReplaceDropTail(_, _, _)
\* Faulty variant: the unmatched tail shorter than old is not copied.
ReplaceDropTail(s, old, new) ==
    IF old = <<>> THEN Interleave(s, new)
    ELSE IF Len(s) < Len(old) THEN <<>>
    ELSE IF SubSeq(s, 1, Len(old)) = old
         THEN new \o ReplaceDropTail(SubSeq(s, Len(old) + 1, Len(s)), old, new)
         ELSE <<Head(s)>> \o ReplaceDropTail(Tail(s), old, new)

RECURSIVE Replace(_, _, _)
Replace(s, old, new) ==
    IF old = <<>> THEN Interleave(s, new)
    ELSE IF Len(s) < Len(old) THEN s
    ELSE IF SubSeq(s, 1, Len(old)) = old
         THEN new \o Replace(SubSeq(s, Len(old) + 1, Len(s)), old, new)
         ELSE <<Head(s)>> \o Replace(Tail(s), old, new)

\* Faulty variant: the chain runs bottom-up.
RuleAtReversed(rs, i) == rs[Len(rs) + 1 - i]

\* The i-th replace statement of the chain, in statement order.
RuleAt(rs, i) == rs[i]

(***************************************************************************)
(* The script.                                                             *)
(***************************************************************************)
Init ==
    /\ disk \in Inputs
    /\ rules \in RuleSets
    /\ code = <<>>
    /\ inputs = <<>>
    /\ pc = "read"
    /\ idx = 1
    /\ run = 1
    /\ report = <<>>

\* with open(path, 'r') as f: code = f.read()
Read ==
    /\ pc = "read"
    /\ code' = disk
    /\ inputs' = Append(inputs, disk)
    /\ idx' = 1
    /\ pc' = "replace"
    /\ UNCHANGED <<disk, rules, run, report>>

\* code = code.replace(search, replacement): one statement of the chain.
\* The result is assigned whatever the number of occurrences; nothing is
\* counted, tested or recorded.  A run is followed only while the buffer
\* fits MaxBuf characters.
ReplaceStep ==
    /\ pc = "replace"
    /\ idx <= Len(rules)
    /\ LET result == Replace(code, RuleAt(rules, idx).search,
                             RuleAt(rules, idx).replacement)
       IN  /\ Len(result) <= MaxBuf
           /\ code' = result
    /\ idx' = idx + 1
    /\ pc' = IF idx = Len(rules) THEN "write" ELSE "replace"
    /\ UNCHANGED <<disk, rules, inputs, run, report>>

\* with open(path, 'w') as f: f.write(code)
Write ==
    /\ pc = "write"
    /\ disk' = code
    /\ pc' = "done"
    /\ UNCHANGED <<code, rules, idx, inputs, run, report>>

\* The script is invoked again on the file it has just written.
RunAgain ==
    /\ pc = "done"
    /\ run < MaxRuns
    /\ run' = run + 1
    /\ pc' = "read"
    /\ UNCHANGED <<disk, code, rules, idx, inputs, report>>

Next == Read \/ ReplaceStep \/ Write \/ RunAgain

Spec == Init /\ [][Next]_vars

(***************************************************************************)
(* Vocabulary of the properties.                                           *)
(***************************************************************************)
\* Expected outputs of the scenarios.
BufAYB == <<"A", ".", " ", "Y", ".", " ", "B", ".">>
BufAZB == <<"A", ".", " ", "Z", ".", " ", "B", ".">>
BufAYYB == <<"A", ".", " ", "Y", ".", " ", "Y", ".", " ", "B", ".">>

\* What the current run read from the file.
original == inputs[Len(inputs)]

Running == pc \in {"replace", "write", "done"}

RECURSIVE ScanFrom(_, _, _)
\* Start positions found by repeatedly taking the next exact match at or
\* after i and resuming right after the matched span.
ScanFrom(s, old, i) ==
    IF i + Len(old) - 1 > Len(s) THEN <<>>
    ELSE IF SubSeq(s, i, i + Len(old) - 1) = old
         THEN <<i>> \o ScanFrom(s, old, i + Len(old))
         ELSE ScanFrom(s, old, i + 1)

\* The non-overlapping occurrences of old in s, left to right (the empty
\* text occurs once at every position, the end included).
Occurrences(s, old) ==
    IF old = <<>> THEN [q \in 1..(Len(s) + 1) |-> q] ELSE ScanFrom(s, old, 1)

Count(s, old) == Len(Occurrences(s, old))

RECURSIVE ApplyPrefix(_, _, _)
\* buffer_k: the first k rules of rs applied in list order, each to the
\* result of the one before.
ApplyPrefix(b, rs, k) ==
    IF k = 0 THEN b
    ELSE Replace(ApplyPrefix(b, rs, k - 1), rs[k].search, rs[k].replacement)

\* Number of occurrences rule j of the list meets when its turn comes.
CountAt(b, rs, j) == Count(ApplyPrefix(b, rs, j - 1), rs[j].search)

\* Every rule of rs meets exactly one occurrence when run on b.
CleanRun(b, rs) == \A j \in 1..Len(rs) : CountAt(b, rs, j) = 1

\* No rule of the list has an empty search text.
NonEmptySearches(rs) == \A j \in 1..Len(rs) : rs[j].search # <<>>

Delta(rule) == Len(rule.replacement) - Len(rule.search)

\* In `after`, the replacement stands at the place of every occurrence.
AllReplaced(before, after, rule) ==
    LET P == Occurrences(before, rule.search)
    IN  \A q \in 1..Len(P) :
            LET from == P[q] + (q - 1) * Delta(rule)
            IN  SubSeq(after, from, from + Len(rule.replacement) - 1) = rule.replacement

\* In `after`, every character outside the occurrences is kept, in order.
FramePreserved(before, after, rule) ==
    LET P == Occurrences(before, rule.search)
        Covered(i) == \E q \in 1..Len(P) : P[q] <= i /\ i < P[q] + Len(rule.search)
        Before(i) == Cardinality({q \in 1..Len(P) : P[q] <= i})
    IN  \A i \in 1..Len(before) :
            ~Covered(i) =>
                LET to == i + Before(i) * Delta(rule)
                IN  to \in 1..Len(after) /\ after[to] = before[i]

(***************************************************************************)
(* C1.  Zero-match detection: when the rule reached has zero occurrences   *)
(* in the current buffer, the run ends there: no later rule is applied     *)
(* and the run does not go on to the write.                                *)
(***************************************************************************)
ZeroMatchHaltsRun ==
    [][(pc = "replace" /\ Count(code, rules[idx].search) = 0)
        => (idx' = idx /\ pc' \notin {"write", "done"})]_vars

FileUnchangedWhenAnyRuleFails ==
    (/\ pc = "done"
     /\ NonEmptySearches(rules)
     /\ \E j \in 1..Len(rules) : CountAt(original, rules, j) = 0)
        => disk = original

(***************************************************************************)
(* C4.  Sequential threading: the rules are applied once each in list      *)
(* order, rule k to the buffer rule k-1 produced; "A. X. B." under         *)
(* [(X,Y),(Y,Z)] ends as "A. Z. B.".                                       *)
(***************************************************************************)
SequentialThreading ==
    /\ Running => code = ApplyPrefix(original, rules, idx - 1)
    /\ pc \in {"write", "done"} => idx = Len(rules) + 1
    /\ (pc = "done" /\ original = BufAXB /\ rules = <<RuleXY, RuleYZ>>)
           => disk = BufAZB

SecondRuleMatchedFirstRulesOutput ==
    /\ pc = "done"
    /\ run = 1
    /\ original = BufAXB
    /\ rules = <<RuleXY, RuleYZ>>
    /\ Count(original, RuleYZ.search) = 0
    /\ disk = BufAZB

(***************************************************************************)
(* C5.  Order sensitivity: with rules [B, A], where B's search text is     *)
(* absent from the input and appears only after A's replacement, the run   *)
(* ends at B (index 0) and produces no output.                             *)
(***************************************************************************)
WrongOrderEndsAtFirstRule ==
    (/\ Running
     /\ Len(rules) = 2
     /\ NonEmptySearches(rules)
     /\ Count(original, rules[1].search) = 0
     /\ Count(ApplyPrefix(original, <<rules[2]>>, 1), rules[1].search) >= 1)
        => (pc = "replace" /\ idx = 1)

(***************************************************************************)
(* C6.  Idempotence boundary: after a run in which every rule matched      *)
(* once, a second run on its output ends at the first rule whose search    *)
(* text no longer occurs in that output, and does not complete.            *)
(***************************************************************************)
SecondRunEndsInMismatch ==
    (/\ run = 2
     /\ Running
     /\ NonEmptySearches(rules)
     /\ CleanRun(inputs[1], rules))
        => \A j \in 1..Len(rules) :
               Count(original, rules[j].search) = 0 => (pc = "replace" /\ idx <= j)

(***************************************************************************)
(* C7.  Scan semantics: one application substitutes exactly the            *)
(* occurrences found left to right without overlap in the buffer it was    *)
(* given, one substitution each; inserted text is not matched again.       *)
(***************************************************************************)
OneSubstitutionPerOccurrence ==
    [][pc = "replace"
        => /\ Len(code') = Len(code) + Count(code, rules[idx].search) * Delta(rules[idx])
           /\ AllReplaced(code, code', rules[idx])]_vars

OverlapAndSelfContainingApplied ==
    /\ pc = "done"
    /\ rules = <<RuleXXY, RuleXXX>>
    /\ original = <<"X", "X", "X">>
    /\ disk = <<"Y", "X", "X">>

(***************************************************************************)
(* C8.  Per-rule report: a completed run has one occurrence count per      *)
(* rule, in rule order, each the number of occurrences the rule met.       *)
(***************************************************************************)
CompletedRunReportsCounts ==
    pc = "done"
        => /\ Len(report) = Len(rules)
           /\ \A j \in 1..Len(rules) : report[j] = CountAt(original, rules, j)

====
